---------------------------- MODULE Spec2Model ----------------------------
(***************************************************************************)
(* A model of the zlog logging pipeline: Config.Build, the severity gates, *)
(* the one-shot level-control endpoint (Config.InitLogServer), the         *)
(* go-zero writer facade (ZapWriter) that emits through a built logger,    *)
(* and the gin request formatter (LogFormatter).                           *)
(***************************************************************************)
EXTENDS Integers, Sequences, FiniteSets, TLC

(***************************************************************************)
(* Bounds of the model.                                                    *)
(***************************************************************************)
NumCfg == 2          \* Config values alive in the process
MaxBuilds == 2       \* loggers returned by Build
EmitBuilds == 1      \* loggers returned by Build where records are emitted
MaxSpawn == 2        \* goroutines started by InitLogServer
MaxRecs == 2         \* records a core accepts
TicksPerSecond == 2  \* resolution of a time.Duration below one second
LineSize == 128      \* bytes of an ordinary encoded record
MaxPort == 2         \* loopback ports a Config may name: 1..MaxPort

(***************************************************************************)
(* Program constants.                                                      *)
(***************************************************************************)
DebugLevel == -1     \* zapcore.DebugLevel
InfoLevel == 0       \* zapcore.InfoLevel
WarnLevel == 1       \* zapcore.WarnLevel
ErrorLevel == 2      \* zapcore.ErrorLevel
PanicLevel == 4      \* zapcore.PanicLevel
KiB == 1024
_defaultBufferSize == 256 * KiB
_file == "file"
_console == "console"
DefaultCallerShip == 3   \* the default of Config.CallerShip

Cfgs == 1..NumCfg
\* every zap.AtomicLevel of the process: Config c is constructed with gate c
\* or, when it is a copy of another Config, with that Config's gate
Gates == 1..NumCfg
\* the severities a gate is set to
GateLevels == {DebugLevel, InfoLevel, WarnLevel, ErrorLevel, PanicLevel}

VARIABLES
    gateOf,       \* Config -> the zap.AtomicLevel its Level field points to
    level,        \* gate -> the severity it holds now
    options,      \* Config -> lc.options, the zap options accumulated so far
    reportLevel,  \* Config -> its ReportConfig: present or nil, Level set or not
    loggers,      \* the loggers Build has returned, in order
    once,         \* _once: "idle", "running" (f is executing) or "done"
    routines,     \* the goroutines InitLogServer has started
    zapGlobal,    \* the logger zap.S() writes to: 0, zap's no-op logger
    lastOp,       \* the operation that produced this state
    fmtOut        \* the last line LogFormatter returned, as its fields

vars == <<gateOf, level, options, reportLevel, loggers, once, routines,
          zapGlobal, lastOp, fmtOut>>

(***************************************************************************)
(* Encoders (config.go 116-124 and 154-159).                               *)
(***************************************************************************)
\* the encoder of the primary, error and console cores
Encoder(conf) ==
    [json |-> conf.json, color |-> conf.color /\ ~conf.json]

\* faulty variant: the report core keeps the configured encoder
ReportEncoderAsConfigured(conf) == Encoder(conf)

\* the encoder of the report core: JSON, lower-case level without color
ReportEncoder(conf) ==
    IF ~conf.json THEN [json |-> TRUE, color |-> FALSE] ELSE Encoder(conf)


(***************************************************************************)
(* Severity thresholds.  A core's threshold is a zapcore.LevelEnabler: the *)
(* Config's zap.AtomicLevel, the constant zapcore.ErrorLevel, or the       *)
(* ReportConfig's AtomicLevel.  It is stored in the core by reference.     *)
(***************************************************************************)
GateRef(g) == [src |-> "gate", id |-> g]
FixedRef(l) == [src |-> "fixed", id |-> l]
ReportRef(c) == [src |-> "report", id |-> c]

\* the severity an enabler holds when it is asked, given the gates now
Threshold(ref, lv, rl) ==
    CASE ref.src = "gate" -> lv[ref.id]
      [] ref.src = "fixed" -> ref.id
      [] ref.src = "report" -> rl[ref.id].lvl

\* faulty variant: a record at the threshold itself is refused
EnabledStrictlyAbove(thr, sev) == sev > thr

\* zapcore.Level.Enabled: the record's severity is at least the threshold
Enabled(thr, sev) == sev >= thr

(***************************************************************************)
(* Sinks.  A core holds the records it accepted (recs), the bytes its      *)
(* BufferedWriteSyncer still holds (buf) and the bytes its underlying      *)
(* sink has observed (seen).                                               *)
(***************************************************************************)
NewCore(kind, enc, thr, async) ==
    [kind |-> kind, enc |-> enc, thr |-> thr, async |-> async,
     recs |-> <<>>, buf |-> 0, seen |-> 0]

\* BufferedWriteSyncer.Sync / the flush timer: the buffer goes to the sink
Flush(core) == [core EXCEPT !.seen = @ + core.buf, !.buf = 0]

WriteThrough(core, n) == [core EXCEPT !.seen = @ + n]

\* BufferedWriteSyncer.Write: flush first when n does not fit and the
\* buffer is not empty; a write larger than the empty buffer goes through
BufferedWrite(core, n) ==
    LET c1 == IF n > _defaultBufferSize - core.buf /\ core.buf > 0
              THEN Flush(core) ELSE core
    IN  IF n > _defaultBufferSize - c1.buf
        THEN [c1 EXCEPT !.seen = @ + n]
        ELSE [c1 EXCEPT !.buf = @ + n]

\* faulty variant: async is ignored and every write goes through
SyncerWriteUnbuffered(core, n) == WriteThrough(core, n)

\* the write syncer of a core: buffered when Build wrapped it (async)
SyncerWrite(core, n) ==
    IF core.async THEN BufferedWrite(core, n) ELSE WriteThrough(core, n)

\* ioCore.Write: encode, write, and sync when the record is above error
CoreWrite(core, rec, n) ==
    LET c1 == SyncerWrite([core EXCEPT !.recs = Append(@, rec)], n)
    IN  IF rec.lvl > ErrorLevel THEN Flush(c1) ELSE c1

\* the tee of a logger: every core whose enabler admits the record writes it
Log(lg, sev, msg, n, lv, rl) ==
    [lg EXCEPT !.cores =
        [j \in DOMAIN lg.cores |->
            IF Enabled(Threshold(lg.cores[j].thr, lv, rl), sev)
            THEN CoreWrite(lg.cores[j], [lvl |-> sev, msg |-> msg], n)
            ELSE lg.cores[j]]]

(***************************************************************************)
(* Config.Build (config.go 61-197).                                        *)
(***************************************************************************)
\* faulty variant: the fileName check is missing
ValidModeOnly(conf) == conf.mode \in {_file, _console}

\* the two checks Build makes before it creates anything
Valid(conf) ==
    /\ conf.mode \in {_file, _console}
    /\ ~(conf.mode = _file /\ conf.fileName = "")

\* Build creates the error sink only in file mode with an errorFileName
HasErrorSink(conf) == conf.mode = _file /\ conf.errorFileName # ""

\* faulty variant: the error core follows the Config's gate
ErrorThresholdFromGate(g) == GateRef(g)

\* the enabler of the error core: the constant zapcore.ErrorLevel
ErrorThreshold(g) == FixedRef(ErrorLevel)

\* a Config's ReportConfig pointer and the Level field behind it
NoReport == [present |-> FALSE, set |-> FALSE, lvl |-> InfoLevel]
UnsetReport == [present |-> TRUE, set |-> FALSE, lvl |-> InfoLevel]
SetReport(l) == [present |-> TRUE, set |-> TRUE, lvl |-> l]

\* ReportConfig.Level after Build: an unset level becomes warning
ReportLevelAfter(r) ==
    IF r.present /\ ~r.set THEN SetReport(WarnLevel) ELSE r

\* the cores Build hands to zapcore.NewTee, in order
NewCores(c, conf, g, r) ==
    <<NewCore("main", Encoder(conf), GateRef(g), conf.async)>>
    \o (IF HasErrorSink(conf)
        THEN <<NewCore("error", Encoder(conf), ErrorThreshold(g), conf.async)>>
        ELSE <<>>)
    \o (IF conf.mode = _file /\ conf.console
        THEN <<NewCore("console", Encoder(conf), GateRef(g), FALSE)>>
        ELSE <<>>)
    \o (IF r.present
        THEN <<NewCore("report", ReportEncoder(conf), ReportRef(c), FALSE)>>
        ELSE <<>>)

\* the options one Build call appends to lc.options
NewOptions(conf) ==
    (IF conf.addCaller
     THEN <<[opt |-> "AddCaller", n |-> 0]>>
          \o (IF conf.callerShip # 0
              THEN <<[opt |-> "AddCallerSkip", n |-> conf.callerShip]>>
              ELSE <<>>)
     ELSE <<>>)
    \o (IF conf.stacktrace
        THEN <<[opt |-> "AddStacktrace", n |-> PanicLevel]>>
        ELSE <<>>)

\* lc.options after Build: what this Build appends to what it found
BuildOptions(opts, conf) == opts \o NewOptions(conf)

RECURSIVE SkipSum(_)
\* zap.AddCallerSkip adds to the logger's callerSkip, once per option
SkipSum(opts) ==
    IF opts = <<>> THEN 0
    ELSE (IF Head(opts).opt = "AddCallerSkip" THEN Head(opts).n ELSE 0)
         + SkipSum(Tail(opts))

HasOption(opts, name) == \E i \in DOMAIN opts : opts[i].opt = name

\* zap.New(core).WithOptions(lc.options...)
NewLogger(c, conf, g, r, opts) ==
    [cfg |-> c, gate |-> g, port |-> conf.port,
     addCallerAsked |-> conf.addCaller, callerShip |-> conf.callerShip,
     stacktraceAsked |-> conf.stacktrace,
     cores |-> NewCores(c, conf, g, r),
     addCaller |-> HasOption(opts, "AddCaller"),
     callerSkip |-> SkipSum(opts),
     stacktrace |-> HasOption(opts, "AddStacktrace")]

\* the goroutine InitLogServer starts; lg is the logger of the Build that
\* called it, 0 for a direct call
NewRoutine(c, p, lg) == [cfg |-> c, port |-> p, lg |-> lg, pc |-> "spawned"]

Build(c, conf) ==
    /\ IF ~Valid(conf)
       THEN /\ lastOp' = [op |-> "Build", cfg |-> c, conf |-> conf,
                          result |-> "panic"]
            /\ UNCHANGED <<gateOf, level, options, reportLevel, loggers, once,
                           routines, zapGlobal, fmtOut>>
       ELSE LET rl == [reportLevel EXCEPT ![c] = ReportLevelAfter(@)]
                opts == BuildOptions(options[c], conf)
                lg == NewLogger(c, conf, gateOf[c], rl[c], opts)
            IN  /\ reportLevel' = rl
                /\ options' = [options EXCEPT ![c] = opts]
                /\ loggers' = Append(loggers,
                       IF conf.port > 0
                       THEN Log(lg, InfoLevel, "init", LineSize, level, rl)
                       ELSE lg)
                /\ routines' = IF conf.port > 0
                               THEN Append(routines,
                                      NewRoutine(c, conf.port, Len(loggers) + 1))
                               ELSE routines
                /\ lastOp' = [op |-> "Build", cfg |-> c, conf |-> conf,
                              result |-> "logger"]
                /\ UNCHANGED <<gateOf, level, once, zapGlobal, fmtOut>>

(***************************************************************************)
(* Level changes (config.go 56-58) and the one-shot level-control endpoint *)
(* (config.go 200-208).                                                    *)
(***************************************************************************)
UpdateLevel(c, lvl) ==
    /\ level' = [level EXCEPT ![gateOf[c]] = lvl]
    /\ lastOp' = [op |-> "UpdateLevel", cfg |-> c, lvl |-> lvl]
    /\ UNCHANGED <<gateOf, options, reportLevel, loggers, once, routines,
                   zapGlobal, fmtOut>>

\* a direct call of the exported method, outside Build
InitLogServer(c, p) ==
    /\ routines' = Append(routines, NewRoutine(c, p, 0))
    /\ lastOp' = [op |-> "InitLogServer", cfg |-> c, port |-> p]
    /\ UNCHANGED <<gateOf, level, options, reportLevel, loggers, once, zapGlobal, fmtOut>>

\* faulty variant: no guard, every caller runs f
MayEnterAlways(o) == TRUE

\* sync.Once: the caller that finds it idle runs f
MayEnter(o) == o = "idle"

\* the goroutine reaches _once.Do: it runs f when the Once is idle, returns
\* when the Once is done, and waits on the Once's mutex while f is running
OnceDo(g) ==
    /\ g \in DOMAIN routines
    /\ routines[g].pc = "spawned"
    /\ \/ /\ MayEnter(once)
          /\ once' = "running"
          /\ routines' = [routines EXCEPT ![g].pc = "listen"]
       \/ /\ ~MayEnter(once)
          /\ once = "done"
          /\ once' = once
          /\ routines' = [routines EXCEPT ![g].pc = "returned"]
    /\ lastOp' = [op |-> "OnceDo", g |-> g]
    /\ UNCHANGED <<gateOf, level, options, reportLevel, loggers, zapGlobal, fmtOut>>

\* zap.S(): the process-wide logger, zap's no-op logger unless one is
\* installed; zapGlobal is the index of the installed logger, 0 for none
LogGlobal(lgs, zg, lv, rl) ==
    IF zg = 0 THEN lgs
    ELSE [lgs EXCEPT ![zg] = Log(@, ErrorLevel, "bindfail", LineSize, lv, rl)]

\* http.ListenAndServe inside f: it binds and serves lc.Level for good, or
\* fails to bind (the port is taken, by this process or another), reports
\* to zap.S() and lets f return
ListenAndServe(g, ok) ==
    /\ g \in DOMAIN routines
    /\ routines[g].pc = "listen"
    /\ ok => \A h \in DOMAIN routines :
                 routines[h].pc = "serving" => routines[h].port # routines[g].port
    /\ IF ok
       THEN /\ routines' = [routines EXCEPT ![g].pc = "serving"]
            /\ UNCHANGED <<once, loggers>>
       ELSE /\ routines' = [routines EXCEPT ![g].pc = "failed"]
            /\ loggers' = LogGlobal(loggers, zapGlobal, level, reportLevel)
            /\ once' = "done"
    /\ lastOp' = [op |-> "ListenAndServe", g |-> g, ok |-> ok]
    /\ UNCHANGED <<gateOf, level, options, reportLevel, zapGlobal, fmtOut>>

\* faulty variant: the endpoint follows the Config of the latest call
ServedGateOfLatest(g) == gateOf[routines[Len(routines)].cfg]

\* the gate a serving goroutine handed to http.ListenAndServe as handler
ServedGate(g) == gateOf[routines[g].cfg]

\* a PUT to the endpoint: AtomicLevel.ServeHTTP sets the served gate
ServeHTTP(g, lvl) ==
    /\ g \in DOMAIN routines
    /\ routines[g].pc = "serving"
    /\ level' = [level EXCEPT ![ServedGate(g)] = lvl]
    /\ lastOp' = [op |-> "ServeHTTP", g |-> g, lvl |-> lvl]
    /\ UNCHANGED <<gateOf, options, reportLevel, loggers, once, routines,
                   zapGlobal, fmtOut>>

(***************************************************************************)
(* ZapWriter (logx.go): the go-zero facade over a built logger.            *)
(***************************************************************************)
Emit(name, l, sev, n) ==
    /\ l \in DOMAIN loggers
    /\ loggers' = [loggers EXCEPT ![l] = Log(@, sev, "log", n, level, reportLevel)]
    /\ lastOp' = [op |-> name, lg |-> l, lvl |-> sev, size |-> n]
    /\ UNCHANGED <<gateOf, level, options, reportLevel, once, routines,
                   zapGlobal, fmtOut>>

Debug(l, n) == Emit("Debug", l, DebugLevel, n)
Info(l, n) == Emit("Info", l, InfoLevel, n)
Slow(l, n) == Emit("Slow", l, WarnLevel, n)
Error(l, n) == Emit("Error", l, ErrorLevel, n)
Severe(l, n) == Emit("Severe", l, PanicLevel, n)

\* ZapWriter.Close: logger.Sync syncs every core
Close(l) ==
    /\ l \in DOMAIN loggers
    /\ loggers' = [loggers EXCEPT ![l].cores =
                      [j \in DOMAIN @ |-> Flush(@[j])]]
    /\ lastOp' = [op |-> "Close", lg |-> l]
    /\ UNCHANGED <<gateOf, level, options, reportLevel, once, routines,
                   zapGlobal, fmtOut>>

\* the flush timer of core j's BufferedWriteSyncer fires; the timer runs
\* from the syncer's first write
FlushTimer(l, j) ==
    /\ l \in DOMAIN loggers
    /\ j \in DOMAIN loggers[l].cores
    /\ loggers[l].cores[j].async
    /\ loggers[l].cores[j].recs # <<>>
    /\ loggers' = [loggers EXCEPT ![l].cores[j] = Flush(@)]
    /\ lastOp' = [op |-> "FlushTimer", lg |-> l, core |-> j]
    /\ UNCHANGED <<gateOf, level, options, reportLevel, once, routines,
                   zapGlobal, fmtOut>>

(***************************************************************************)
(* LogFormatter (the gin request formatter).  A time.Duration is a number  *)
(* of ticks, TicksPerSecond to the second.                                 *)
(***************************************************************************)
Second == TicksPerSecond
Minute == 60 * Second
Hour == 60 * Minute

Abs(d) == IF d < 0 THEN 0 - d ELSE d

\* faulty variant of Truncate, Duration.Round(m): to the nearest multiple
\* of m, halves away from zero
RoundToNearest(d, m) ==
    LET r == Abs(d) % m
        q == IF 2 * r >= m THEN Abs(d) - r + m ELSE Abs(d) - r
    IN  IF d < 0 THEN 0 - q ELSE q

\* Duration.Truncate(m): toward zero to a multiple of m
Truncate(d, m) ==
    IF d < 0 THEN 0 - (Abs(d) - (Abs(d) % m)) ELSE d - (d % m)

\* Duration.String, as the fields it prints: sign, hours, minutes, seconds
\* and the fraction of a second
DurationString(d) ==
    [neg |-> d < 0,
     h |-> Abs(d) \div Hour,
     m |-> (Abs(d) \div Minute) % 60,
     s |-> (Abs(d) \div Second) % 60,
     frac |-> Abs(d) % Second]

\* the latency LogFormatter hands to Sprintf
FormatLatency(latency) ==
    IF latency > Minute THEN Truncate(latency, Second) ELSE latency

\* the line LogFormatter returns, as the fields Sprintf renders into it
FormatLine(param) ==
    [statusCode |-> param.statusCode, path |-> param.path,
     method |-> param.method,
     cost |-> DurationString(FormatLatency(param.latency)),
     clientIp |-> param.clientIP]

LogFormatter(param) ==
    /\ fmtOut' = FormatLine(param)
    /\ lastOp' = [op |-> "LogFormatter", param |-> param]
    /\ UNCHANGED <<gateOf, level, options, reportLevel, loggers, once,
                   routines, zapGlobal>>

(***************************************************************************)
(* Inputs.  A Config's plain fields are what its owner set before the      *)
(* Build call; its Level gate, its options and its ReportConfig persist    *)
(* from call to call.                                                      *)
(***************************************************************************)
Ports == 1..MaxPort
LoggerIds == 1..MaxBuilds
RoutineIds == 1..MaxSpawn
\* Build makes at most a main, an error, a console and a report core
CoreIds == 1..4

\* the Config literal of the zero options: console, synchronous, plain
Plain ==
    [mode |-> _console, fileName |-> "", errorFileName |-> "",
     console |-> FALSE, async |-> FALSE, json |-> FALSE, color |-> FALSE,
     port |-> 0, addCaller |-> FALSE, callerShip |-> 0, stacktrace |-> FALSE]

\* the bounds on what the process does: builds, goroutines, records
MayBuild(conf, max) ==
    /\ Len(loggers) < max
    /\ conf.port > 0 => Len(routines) < MaxSpawn
MaySpawn == Len(routines) < MaxSpawn
MayEmit(l) ==
    /\ l \in DOMAIN loggers
    /\ \A j \in DOMAIN loggers[l].cores : Len(loggers[l].cores[j].recs) < MaxRecs

InitWith(gates, levels, reports) ==
    /\ gateOf \in gates
    /\ level \in [Gates -> levels]
    /\ options = [c \in Cfgs |-> <<>>]
    /\ reportLevel \in [Cfgs -> reports]
    /\ loggers = <<>>
    /\ once = "idle"
    /\ routines = <<>>
    /\ zapGlobal = 0
    /\ lastOp = [op |-> "init"]
    /\ fmtOut = FormatLine([statusCode |-> 0, path |-> "", method |-> "",
                            latency |-> 0, clientIP |-> ""])

\* every Config constructed with a gate of its own
OwnGates == {[c \in Cfgs |-> c]}
\* Config 1 has its gate; a later Config has its own or is a copy of one
SharedGates == {f \in [Cfgs -> Gates] : \A c \in Cfgs : f[c] \in {1, c}}

(***************************************************************************)
(* Spec: one process that builds loggers in console or file mode, with or  *)
(* without the error file, the console copy and the endpoint, emits        *)
(* through them and changes the gates.                                     *)
(***************************************************************************)
GateConfs ==
    {[Plain EXCEPT !.mode = _file, !.fileName = "app.log",
                   !.errorFileName = e, !.console = k, !.port = p] :
        e \in {"", "err.log"}, k \in BOOLEAN, p \in {0, 1}}
    \cup {Plain, [Plain EXCEPT !.port = 1]}

Init == InitWith(OwnGates, GateLevels, {UnsetReport})

Next ==
    \/ \E c \in Cfgs, conf \in GateConfs : MayBuild(conf, EmitBuilds) /\ Build(c, conf)
    \/ \E c \in Cfgs, lvl \in GateLevels : UpdateLevel(c, lvl)
    \/ \E g \in RoutineIds : OnceDo(g)
    \/ \E g \in RoutineIds, ok \in BOOLEAN : ListenAndServe(g, ok)
    \/ \E g \in RoutineIds, lvl \in GateLevels : ServeHTTP(g, lvl)
    \/ \E l \in LoggerIds : MayEmit(l) /\ Debug(l, LineSize)
    \/ \E l \in LoggerIds : MayEmit(l) /\ Info(l, LineSize)
    \/ \E l \in LoggerIds : MayEmit(l) /\ Slow(l, LineSize)
    \/ \E l \in LoggerIds : MayEmit(l) /\ Error(l, LineSize)
    \/ \E l \in LoggerIds : MayEmit(l) /\ Severe(l, LineSize)

Spec == Init /\ [][Next]_vars

EmitOps == {"Debug", "Info", "Slow", "Error", "Severe"}

\* the records of core j of logger lg after it was offered a record of
\* severity sev: one more when its threshold, read now, admits sev
Offered(core, sev, msg, lv, rl) ==
    IF Threshold(core.thr, lv, rl) <= sev
    THEN Append(core.recs, [lvl |-> sev, msg |-> msg])
    ELSE core.recs

\* C2: a record emitted at severity S (through ZapWriter, or the "init"
\* record Build emits at info when port > 0) is written exactly once to
\* each core whose threshold at that moment is <= S and to no other core.
C2_LiveGating ==
    [][/\ lastOp'.op \in EmitOps =>
            LET lg == loggers[lastOp'.lg]
            IN  /\ Len(loggers') = Len(loggers)
                /\ \A j \in DOMAIN lg.cores :
                      loggers'[lastOp'.lg].cores[j].recs =
                          Offered(lg.cores[j], lastOp'.lvl, "log",
                                  level, reportLevel)
       /\ (lastOp'.op = "Build" /\ Len(loggers') > Len(loggers)) =>
            LET lg == loggers'[Len(loggers')]
            IN  \A j \in DOMAIN lg.cores :
                   lg.cores[j].recs =
                      IF lastOp'.conf.port > 0
                         /\ Threshold(lg.cores[j].thr, level', reportLevel')
                               <= InfoLevel
                      THEN <<[lvl |-> InfoLevel, msg |-> "init"]>>
                      ELSE <<>>
      ]_vars

\* C2's case: the endpoint is serving, the main gate stands at info, and
\* the info record just emitted is the one record of the main core while
\* the error core of the same logger took none.
C2_Witness ==
    /\ lastOp.op = "Info"
    /\ \E g \in DOMAIN routines : routines[g].pc = "serving"
    /\ LET lg == loggers[lastOp.lg]
       IN  /\ level[lg.gate] = InfoLevel
           /\ \E j \in DOMAIN lg.cores :
                 /\ lg.cores[j].kind = "main"
                 /\ lg.cores[j].recs = <<[lvl |-> InfoLevel, msg |-> "log"]>>
           /\ \E j \in DOMAIN lg.cores :
                 /\ lg.cores[j].kind = "error"
                 /\ lg.cores[j].recs = <<>>

\* C3: the error-only core holds only records at or above error, whatever
\* the main gate was set to, and its threshold is the constant error level.
C3_ErrorSinkOnlyErrors ==
    \A l \in DOMAIN loggers : \A j \in DOMAIN loggers[l].cores :
        loggers[l].cores[j].kind = "error" =>
            /\ \A i \in DOMAIN loggers[l].cores[j].recs :
                  loggers[l].cores[j].recs[i].lvl >= ErrorLevel
            /\ loggers[l].cores[j].thr.src = "fixed"
            /\ loggers[l].cores[j].thr.id = ErrorLevel

\* C3's case: the main gate is at debug, the main core took a debug record
\* and the error core took only the error record.
C3_Witness ==
    \E l \in DOMAIN loggers :
        /\ level[loggers[l].gate] = DebugLevel
        /\ \E j \in DOMAIN loggers[l].cores :
              /\ loggers[l].cores[j].kind = "main"
              /\ \E i \in DOMAIN loggers[l].cores[j].recs :
                    loggers[l].cores[j].recs[i].lvl = DebugLevel
        /\ \E j \in DOMAIN loggers[l].cores :
              /\ loggers[l].cores[j].kind = "error"
              /\ loggers[l].cores[j].recs = <<[lvl |-> ErrorLevel, msg |-> "log"]>>

(***************************************************************************)
(* SpecBuild: Build alone, called once or twice on either Config, over     *)
(* valid and invalid destinations, every json/color pair and every         *)
(* combination of the finalizer's inputs.                                  *)
(***************************************************************************)
Modes == {_console, _file, "syslog"}

BuildConfs ==
    {[Plain EXCEPT !.mode = m, !.fileName = f, !.errorFileName = e, !.port = p] :
        m \in Modes, f \in {"", "app.log"}, e \in {"", "err.log"}, p \in {0, 1}}
    \cup {[Plain EXCEPT !.json = j, !.color = k] : j \in BOOLEAN, k \in BOOLEAN}
    \cup {[Plain EXCEPT !.addCaller = a, !.callerShip = n, !.stacktrace = t] :
            a \in BOOLEAN, n \in {0, DefaultCallerShip}, t \in BOOLEAN}

InitBuild ==
    InitWith(OwnGates, {InfoLevel, ErrorLevel},
             {NoReport, UnsetReport, SetReport(ErrorLevel)})

NextBuild ==
    \E c \in Cfgs, conf \in BuildConfs : MayBuild(conf, MaxBuilds) /\ Build(c, conf)

SpecBuild == InitBuild /\ [][NextBuild]_vars

\* C1: a Build whose mode is neither console nor file, or whose mode is
\* file with an empty fileName, panics and leaves everything as it was: no
\* logger (so no sink and no core), no goroutine for the endpoint.
C1_InvalidConfigHalts ==
    [][(/\ lastOp'.op = "Build"
        /\ \/ lastOp'.conf.mode \notin {"console", "file"}
           \/ lastOp'.conf.mode = "file" /\ lastOp'.conf.fileName = "")
       => /\ lastOp'.result = "panic"
          /\ loggers' = loggers
          /\ routines' = routines
          /\ once' = once
          /\ options' = options
          /\ reportLevel' = reportLevel
      ]_vars

\* C1's case: a Build in file mode with no fileName and a port has panicked
\* and nothing exists.
C1_Witness ==
    /\ lastOp.op = "Build"
    /\ lastOp.result = "panic"
    /\ lastOp.conf.mode = "file"
    /\ lastOp.conf.fileName = ""
    /\ lastOp.conf.port > 0
    /\ loggers = <<>>
    /\ routines = <<>>

\* C6: when the Config has a ReportConfig, the logger Build returns has a
\* report core whose encoder is JSON without color, for every json/color,
\* and whose threshold is the ReportConfig's level, warning when it was unset.
C6_ReportCoreIsJson ==
    [][(/\ lastOp'.op = "Build"
        /\ lastOp'.result = "logger"
        /\ reportLevel[lastOp'.cfg].present)
       => LET c == lastOp'.cfg
              lg == loggers'[Len(loggers')]
          IN  /\ Len(loggers') = Len(loggers) + 1
              /\ \E j \in DOMAIN lg.cores : lg.cores[j].kind = "report"
              /\ \A j \in DOMAIN lg.cores :
                    lg.cores[j].kind = "report" =>
                       /\ lg.cores[j].enc = [json |-> TRUE, color |-> FALSE]
                       /\ lg.cores[j].thr = [src |-> "report", id |-> c]
              /\ reportLevel'[c].present /\ reportLevel'[c].set
              /\ reportLevel'[c].lvl =
                    IF reportLevel[c].set THEN reportLevel[c].lvl ELSE WarnLevel
      ]_vars

\* C6's case: json off and color on, the ReportConfig's level unset: the
\* main core is colored console text, the report core is plain JSON at
\* warning.
C6_Witness ==
    /\ lastOp.op = "Build"
    /\ lastOp.result = "logger"
    /\ ~lastOp.conf.json /\ lastOp.conf.color
    /\ LET lg == loggers[Len(loggers)]
       IN  /\ lg.cores[1].enc = [json |-> FALSE, color |-> TRUE]
           /\ \E j \in DOMAIN lg.cores :
                 /\ lg.cores[j].kind = "report"
                 /\ lg.cores[j].enc = [json |-> TRUE, color |-> FALSE]
           /\ reportLevel[lg.cfg].lvl = WarnLevel

\* the Builds before l on l's Config had the finalizer inputs of l
SameInputsBefore(l) ==
    \A k \in 1..(l - 1) :
        loggers[k].cfg = loggers[l].cfg =>
            /\ loggers[k].addCallerAsked = loggers[l].addCallerAsked
            /\ loggers[k].callerShip = loggers[l].callerShip
            /\ loggers[k].stacktraceAsked = loggers[l].stacktraceAsked

\* C10: the logger of the n-th Build on an unchanged Config with addCaller
\* on and callerSkip = k skips exactly k frames, and has caller capture and
\* stack traces exactly as the Config asks.
C10_SkipIsCallerShip ==
    \A l \in DOMAIN loggers :
        (SameInputsBefore(l) /\ loggers[l].addCallerAsked) =>
            /\ loggers[l].callerSkip = loggers[l].callerShip
            /\ loggers[l].addCaller
            /\ loggers[l].stacktrace = loggers[l].stacktraceAsked


(***************************************************************************)
(* SpecServer: the endpoint's life.  Builds with and without a port on     *)
(* Configs that own or share a gate, direct InitLogServer calls, the       *)
(* goroutines' steps in any order, and requests to the endpoint.           *)
(***************************************************************************)
ServerConfs == {[Plain EXCEPT !.port = p] : p \in {0} \cup Ports}

InitServer == InitWith(SharedGates, {InfoLevel, WarnLevel}, {NoReport})

NextServer ==
    \/ \E c \in Cfgs, conf \in ServerConfs :
          MayBuild(conf, MaxBuilds) /\ Build(c, conf)
    \/ \E c \in Cfgs, p \in Ports : MaySpawn /\ InitLogServer(c, p)
    \/ \E g \in RoutineIds : OnceDo(g)
    \/ \E g \in RoutineIds, ok \in BOOLEAN : ListenAndServe(g, ok)
    \/ \E g \in RoutineIds, lvl \in GateLevels : ServeHTTP(g, lvl)

SpecServer == InitServer /\ [][NextServer]_vars

Serving == {g \in DOMAIN routines : routines[g].pc = "serving"}

\* C4: however many times InitLogServer is called, from whichever Config
\* and in whatever order its goroutines run, at most one listener exists,
\* and once it exists no later call replaces it, rebinds it or starts
\* another attempt.
C4_OneListener ==
    /\ [](Cardinality(Serving) <= 1)
    /\ [][\A g \in Serving :
            /\ g \in DOMAIN routines'
            /\ routines'[g] = routines[g]
            /\ \A h \in DOMAIN routines' :
                  h # g => routines'[h].pc \notin {"listen", "serving"}
         ]_vars

\* C4's case: two calls were made for different ports; the goroutine of
\* one is serving and the other's has not started a listener.
C4_Witness ==
    /\ Len(routines) = 2
    /\ routines[1].port # routines[2].port
    /\ \E g \in Serving : \A h \in DOMAIN routines :
          h # g => routines[h].pc = "spawned"

\* C5: when the bind of the goroutine that a Build started fails, the
\* failure is a record in the pipeline of the logger that Build returned.
C5_FailureInBuiltPipeline ==
    \A g \in DOMAIN routines :
        (routines[g].pc = "failed" /\ routines[g].lg # 0) =>
            \E j \in DOMAIN loggers[routines[g].lg].cores :
                \E i \in DOMAIN loggers[routines[g].lg].cores[j].recs :
                    loggers[routines[g].lg].cores[j].recs[i].msg = "bindfail"

\* C9 as claimed: the gate the running endpoint serves is the gate of every
\* logger a Build with port > 0 returned.
C9_ServesEveryLogger ==
    \A g \in Serving : \A l \in DOMAIN loggers :
        loggers[l].port > 0 => loggers[l].gate = gateOf[routines[g].cfg]

\* C9 amended: the endpoint serves the gate of the Config whose goroutine
\* ran the one-shot body; a severity set through it becomes the live
\* threshold of the primary core of the loggers built on that gate, and the
\* gates of the other loggers keep their severity.
C9_ServesWinnersGate ==
    [][lastOp'.op = "ServeHTTP" =>
          LET g == lastOp'.g
              served == gateOf[routines[g].cfg]
          IN  /\ Serving = {g}
              /\ \A l \in DOMAIN loggers :
                    IF loggers[l].gate = served
                    THEN Threshold(loggers'[l].cores[1].thr, level', reportLevel')
                            = lastOp'.lvl
                    ELSE level'[loggers[l].gate] = level[loggers[l].gate]
      ]_vars

\* C9's case: two loggers built with a port on Configs with different
\* gates; a request set the first Config's gate and the other logger's
\* threshold is not the severity that was set.
C9_Witness ==
    /\ lastOp.op = "ServeHTTP"
    /\ Len(loggers) = 2
    /\ loggers[1].port > 0 /\ loggers[2].port > 0
    /\ loggers[1].gate # loggers[2].gate
    /\ \E g \in Serving :
          /\ gateOf[routines[g].cfg] = loggers[1].gate
          /\ level[loggers[1].gate] = lastOp.lvl
          /\ level[loggers[2].gate] # lastOp.lvl


(***************************************************************************)
(* SpecAsync: one logger, buffered or not, with or without the error file  *)
(* and the console copy; records of sizes that fit the buffer, fill it and *)
(* exceed it; the flush timers; Close.                                     *)
(***************************************************************************)
AsyncConfs ==
    {[Plain EXCEPT !.async = a] : a \in BOOLEAN}
    \cup {[Plain EXCEPT !.mode = _file, !.fileName = "app.log",
                        !.errorFileName = "err.log", !.console = TRUE,
                        !.async = a] : a \in BOOLEAN}

BigSizes == {96 * KiB, 200 * KiB, 300 * KiB}

InitAsync == InitWith(OwnGates, {DebugLevel, WarnLevel}, {NoReport})

NextAsync ==
    \/ \E c \in Cfgs, conf \in AsyncConfs :
          MayBuild(conf, EmitBuilds) /\ Build(c, conf)
    \/ \E l \in LoggerIds, n \in BigSizes : MayEmit(l) /\ Info(l, n)
    \/ \E l \in LoggerIds, n \in BigSizes : MayEmit(l) /\ Error(l, n)
    \/ \E l \in LoggerIds, n \in BigSizes : MayEmit(l) /\ Severe(l, n)
    \/ \E l \in LoggerIds, j \in CoreIds : FlushTimer(l, j)
    \/ \E l \in LoggerIds : Close(l)

SpecAsync == InitAsync /\ [][NextAsync]_vars

\* the write of this step leaves core's buffer below its capacity
FitsBelowCapacity(core, n) == core.buf + n < 256 * KiB

\* C7 as claimed: a write, of any severity, that keeps a buffered core's
\* accumulated bytes below 256 KiB is not observed by the underlying sink.
C7_BufferedAtEverySeverity ==
    [][lastOp'.op \in EmitOps =>
          \A j \in DOMAIN loggers[lastOp'.lg].cores :
              LET core == loggers[lastOp'.lg].cores[j]
              IN  (core.async /\ FitsBelowCapacity(core, lastOp'.size)) =>
                     loggers'[lastOp'.lg].cores[j].seen = core.seen
      ]_vars

\* C7 amended: a write at error severity or below that keeps a buffered
\* core's accumulated bytes below 256 KiB is not observed by the underlying
\* sink; the sink of a buffered core observes bytes only when the flush
\* timer fires, when a write does not fit, when the logger is closed, or
\* when a record above error is written (the core then syncs at once).
C7_BufferedUpToError ==
    [][/\ (lastOp'.op \in EmitOps /\ lastOp'.lvl <= ErrorLevel) =>
            \A j \in DOMAIN loggers[lastOp'.lg].cores :
                LET core == loggers[lastOp'.lg].cores[j]
                IN  (core.async /\ FitsBelowCapacity(core, lastOp'.size)) =>
                       loggers'[lastOp'.lg].cores[j].seen = core.seen
       /\ \A l \in DOMAIN loggers : \A j \in DOMAIN loggers[l].cores :
             (/\ loggers[l].cores[j].async
              /\ loggers'[l].cores[j].seen # loggers[l].cores[j].seen) =>
                 \/ lastOp'.op = "FlushTimer" /\ lastOp'.lg = l /\ lastOp'.core = j
                 \/ lastOp'.op = "Close" /\ lastOp'.lg = l
                 \/ /\ lastOp'.op \in EmitOps /\ lastOp'.lg = l
                    /\ \/ lastOp'.lvl > ErrorLevel
                       \/ ~FitsBelowCapacity(loggers[l].cores[j], lastOp'.size)
      ]_vars

\* C7's case: an error record below the capacity was just written to a
\* buffered logger with an error file; both buffered cores hold its bytes
\* and their sinks have observed nothing.
C7_Witness ==
    /\ lastOp.op = "Error"
    /\ LET lg == loggers[lastOp.lg]
       IN  /\ \E j \in DOMAIN lg.cores : lg.cores[j].kind = "error"
           /\ \A j \in DOMAIN lg.cores :
                 lg.cores[j].kind \in {"main", "error"} =>
                    /\ lg.cores[j].async
                    /\ lg.cores[j].buf >= lastOp.size
                    /\ lg.cores[j].seen = 0

(***************************************************************************)
(* SpecFmt: LogFormatter over latencies on both sides of one minute, with  *)
(* and without a fraction of a second, and beyond an hour.                 *)
(***************************************************************************)
Latencies ==
    ((0 - Second)..(80 * Second)) \cup {Hour + 75 * Second + 1}

Params ==
    [statusCode : {200, 500}, path : {"/", "/ping"}, method : {"GET"},
     latency : Latencies, clientIP : {"127.0.0.1"}]

InitFmt == InitWith(OwnGates, {InfoLevel}, {NoReport})

NextFmt == \E param \in Params : LogFormatter(param)

SpecFmt == InitFmt /\ [][NextFmt]_vars

\* the duration a rendered latency stands for, in ticks
Rendered(cost) ==
    (IF cost.neg THEN 0 - 1 ELSE 1)
    * (((cost.h * 60 + cost.m) * 60 + cost.s) * TicksPerSecond + cost.frac)

\* C8: the line shows the latency cut to whole seconds when it is over one
\* minute and unchanged otherwise, and the other four fields as given.
C8_LatencyRendering ==
    lastOp.op = "LogFormatter" =>
        LET p == lastOp.param
        IN  /\ Rendered(fmtOut.cost) =
                  IF p.latency > 60 * TicksPerSecond
                  THEN (p.latency \div TicksPerSecond) * TicksPerSecond
                  ELSE p.latency
            /\ fmtOut.statusCode = p.statusCode
            /\ fmtOut.path = p.path
            /\ fmtOut.method = p.method
            /\ fmtOut.clientIp = p.clientIP

\* C8's case: a latency of 75 s and a fraction is shown as 1m15s.
C8_Witness ==
    /\ lastOp.op = "LogFormatter"
    /\ lastOp.param.latency = 75 * TicksPerSecond + 1
    /\ fmtOut.cost = [neg |-> FALSE, h |-> 0, m |-> 1, s |-> 15, frac |-> 0]

=============================================================================
